---- MODULE Spec2Model ----
(***************************************************************************)
(* Model of simple_zkp_integration: the HTTP handlers of                   *)
(* internal/handlers/proof.go (one-time key setup behind sync.Once, proof  *)
(* generation and verification, health check) on top of the addition       *)
(* circuit of internal/circuit/addtion.go.                                 *)
(*                                                                         *)
(* Every request is served by its own goroutine; a goroutine's position is *)
(* pc[i].  The gnark backend (groth16.Setup / Prove / Verify and the proof *)
(* wire format) is an external library: it is modelled by its contract, a  *)
(* proof being three encoded group elements (Ar, Bs, Krs) that bind the    *)
(* key pair, the public input and the prover's randomness.                 *)
(***************************************************************************)
EXTENDS Integers, Sequences, FiniteSets, TLC

\* ------------------------------------------------------------------ bounds

\* Number of requests (goroutines) in one run.
NumReq == 3

\* Go's int scaled down: request integers range over IntMin..IntMax.
IntMax == 1

\* Number of distinct values of the prover's randomness.
NumNonce == 2

IntMin == -IntMax - 1

Ints == IntMin..IntMax

Reqs == 1..NumReq

Nonces == 0..(NumNonce - 1)

\* ----------------------------------------------------------------- errors

\* Go's nil error.
NoErr == "nil"

\* The detail text of a backend error (err.Error()).
ErrDetails == {"e1", "e2"}

\* The same failure with another detail text: the run that differs from this
\* one only in what the backend's error says.
Twin(e) == IF e = NoErr THEN NoErr ELSE IF e = "e1" THEN "e2" ELSE "e1"

\* The detail text of the error a failing Prove, ReadFrom or Verify call
\* returns in this run (the other run reads Twin(CallErr)).
CallErr == "e1"

\* A nil key (the zero value of the key interfaces).
NilKey == 0

\* ------------------------------------------------------------ the circuit

\* ecc.BN254.ScalarField(): the field is far wider than Go's int, so no two
\* sums of two ints collide in it.
FieldModulus == 8 * (IntMax + 1) + 3

Field == 0..(FieldModulus - 1)

\* frontend.NewWitness: an int assigned to a frontend.Variable becomes a field
\* element (negative values wrap to the top of the field).
ToField(v) == v % FieldModulus

\* api.Add
Add(x, y) == (x + y) % FieldModulus

\* api.AssertIsEqual
AssertIsEqual(x, y) == x = y

\* A circuit with the constraint left out.
DefineNoConstraint(A, B, Sum) == TRUE

\* AdditionCircuit.Define: A + B == Sum.
Define(A, B, Sum) == AssertIsEqual(Add(A, B), Sum)

\* --------------------------------------------------- the groth16 backend

\* groth16.Setup on the compiled circuit: the n-th run of the trusted setup
\* draws fresh toxic waste, so it yields a key pair of its own (pair n); a
\* failure of frontend.Compile or groth16.Setup yields (nil, nil, err).
Setup(n, out) ==
    IF out = NoErr
    THEN [pk |-> n, vk |-> n, err |-> NoErr]
    ELSE [pk |-> NilKey, vk |-> NilKey, err |-> out]

\* groth16.Prove: fails unless the witness satisfies the constraint system;
\* a proof binds the key pair, the public input and the randomness r.  A nil
\* proving key makes the type assertion inside Prove panic.
Prove(pk, w, r, d) ==
    IF pk = NilKey
    THEN [proof |-> <<>>, err |-> "panic"]
    ELSE IF ~Define(w.A, w.B, w.Sum)
    THEN [proof |-> <<>>, err |-> d]
    ELSE [proof |-> [Ar |-> r, Bs |-> pk, Krs |-> Add(w.Sum, r)], err |-> NoErr]

\* groth16.Verify: the pairing check of a proof against the verifying key and
\* the public witness.
Verify(proof, vk, pub, d) ==
    IF vk = NilKey
    THEN "panic"
    ELSE IF proof.Bs = vk /\ proof.Krs = Add(pub, proof.Ar) THEN NoErr ELSE d

\* A serialization that writes the elements in another order than ReadFrom
\* reads them.
WriteToSwapped(proof) ==
    [bytes |-> <<proof.Ar + 1, proof.Krs + 1, proof.Bs + 1>>, err |-> NoErr]

\* proof.WriteTo(buf): the three elements in their wire encoding (an element
\* x is written as x + 1; 0 encodes nothing).  Writing to a bytes.Buffer
\* does not fail.
WriteTo(proof) ==
    [bytes |-> <<proof.Ar + 1, proof.Bs + 1, proof.Krs + 1>>, err |-> NoErr]

\* A reader that accepts any input, taking missing or invalid elements as 0.
ReadFromLenient(bytes, d) ==
    LET at(k) == IF k <= Len(bytes) /\ bytes[k] - 1 \in Field THEN bytes[k] - 1 ELSE 0
    IN  [proof |-> [Ar |-> at(1), Bs |-> at(2), Krs |-> at(3)], err |-> NoErr]

\* proof.ReadFrom(buf): fails on truncated input and on an element that is
\* no valid encoding.
ReadFrom(bytes, d) ==
    IF Len(bytes) = 3 /\ \A k \in 1..3 : bytes[k] - 1 \in Field
    THEN [proof |-> [Ar |-> bytes[1] - 1, Bs |-> bytes[2] - 1, Krs |-> bytes[3] - 1],
          err |-> NoErr]
    ELSE [proof |-> <<>>, err |-> d]

\* Byte strings that are no serialized proof: empty, truncated, and one with
\* an invalid element.
MalformedProofs == {<<>>, <<1, 1>>, <<0, 1, 1>>}

\* A client changing the middle element of a proof it received.
Tamper(bytes) == [bytes EXCEPT ![2] = (bytes[2] % FieldModulus) + 1]

\* ------------------------------------------- internal/circuit/addtion.go

\* circuit.GenerateProof: the full witness (A, B, Sum), then groth16.Prove.
CircuitGenerateProof(pk, a, b, sum, r, d) ==
    Prove(pk, [A |-> ToField(a), B |-> ToField(b), Sum |-> ToField(sum)], r, d)

\* A public witness whose Sum was never assigned.
PublicWitnessUnassigned(sum) == 0

\* A public witness that keeps only the low bit of the sum.
PublicWitnessLowBit(sum) == sum % 2

\* The public witness of circuit.VerifyProof: Sum only.
PublicWitness(sum) == ToField(sum)

\* circuit.VerifyProof: the public witness, then groth16.Verify.
CircuitVerifyProof(vk, proof, sum, d) == Verify(proof, vk, PublicWitness(sum), d)

\* --------------------------------------------------- pkg/models, JSON

\* A request body: syntax is FALSE for a body that is no JSON object of the
\* expected types; a field is <<v>> when present and <<>> when missing.
\* json.Decoder.Decode fails only on the former: a missing field keeps its
\* zero value.
FieldOr(f, zero) == IF f = <<>> THEN zero ELSE f[1]

\* json.NewDecoder(r.Body).Decode(&req) for models.ProofRequest
DecodeProofRequest(body) ==
    [err |-> IF body.syntax THEN NoErr ELSE "json",
     A   |-> FieldOr(body.a, 0),
     B   |-> FieldOr(body.b, 0),
     Sum |-> FieldOr(body.sum, 0)]

\* json.NewDecoder(r.Body).Decode(&req) for models.VerifyRequest
DecodeVerifyRequest(body) ==
    [err   |-> IF body.syntax THEN NoErr ELSE "json",
     Proof |-> FieldOr(body.proof, <<>>),
     Sum   |-> FieldOr(body.sum, 0)]

\* What the client sent: "bad" (no valid JSON), "missing" (a field is
\* missing) or "ok".
Shape(body, fields) ==
    IF ~body.syntax THEN "bad"
    ELSE IF \E k \in 1..Len(fields) : fields[k] = <<>> THEN "missing"
    ELSE "ok"

\* ------------------------------------------------------------- responses

\* No response written yet.
NoResp == [status |-> -1, error |-> <<>>, proof |-> <<>>, sum |-> 0, valid |-> "none"]

\* The connection of a handler that panicked: net/http recovers the panic and
\* closes the connection without a response.
Aborted == [NoResp EXCEPT !.status = 0]

\* respondWithError(w, status, message): {"error": message}
respondWithError(status, message) ==
    [NoResp EXCEPT !.status = status, !.error = message]

\* models.ProofResponse with http.StatusOK
ProofResponse(bytes, sum) ==
    [NoResp EXCEPT !.status = 200, !.proof = bytes, !.sum = sum]

\* models.VerifyResponse with http.StatusOK
VerifyResponse(valid) ==
    [NoResp EXCEPT !.status = 200, !.valid = IF valid THEN "true" ELSE "false"]

\* The payload of HealthCheck.
HealthResponse ==
    [NoResp EXCEPT !.status = 200, !.error = <<"healthy", "zkp-api">>]

\* The answer of both handlers when setupErr is set: the message is
\* "Setup failed: " + setupErr.Error().
SetupFailedResponse(err) == respondWithError(500, <<"Setup failed: ", err>>)

\* --------------------------------------------------------- handler bodies

\* GenerateProof after the setup check: decode, prove, serialize, respond.
\* r is the prover's randomness, d the detail of a backend error.
GenerateProofBody(pk, body, r, d) ==
    LET req == DecodeProofRequest(body) IN
    IF req.err # NoErr
    THEN [resp |-> respondWithError(400, <<"Invalid request body">>), backend |-> "none"]
    ELSE LET g == CircuitGenerateProof(pk, req.A, req.B, req.Sum, r, d) IN
         IF g.err = "panic"
         THEN [resp |-> Aborted, backend |-> "prove"]
         ELSE IF g.err # NoErr
         THEN [resp |-> respondWithError(500, <<"Failed to generate proof">>),
               backend |-> "prove"]
         ELSE LET buf == WriteTo(g.proof) IN
              IF buf.err # NoErr
              THEN [resp |-> respondWithError(500, <<"Failed to serialize proof">>),
                    backend |-> "prove"]
              ELSE [resp |-> ProofResponse(buf.bytes, req.Sum), backend |-> "prove"]

\* VerifyProof after the setup check: decode, deserialize, verify, respond.
VerifyProofBody(vk, body, d) ==
    LET req == DecodeVerifyRequest(body) IN
    IF req.err # NoErr
    THEN [resp |-> respondWithError(400, <<"Invalid request body">>), backend |-> "none"]
    ELSE LET p == ReadFrom(req.Proof, d) IN
         IF p.err # NoErr
         THEN [resp |-> respondWithError(400, <<"Invalid proof format">>),
               backend |-> "none"]
         ELSE LET err == CircuitVerifyProof(vk, p.proof, req.Sum, d) IN
              IF err = "panic"
              THEN [resp |-> Aborted, backend |-> "verify"]
              ELSE [resp |-> VerifyResponse(err = NoErr), backend |-> "verify"]

\* ------------------------------------------------------------------ state

VARIABLES
    once,          \* setupOnce: "idle", "running" (f is executing) or "done"
    provingKey,    \* the package variable provingKey
    verifyingKey,  \* the package variable verifyingKey
    setupErr,      \* the package variable setupErr
    twinErr,       \* setupErr in the run whose backend errors read otherwise
    setupLog,      \* what each invocation of circuit.Setup returned, in order
    pc,            \* pc[i]: where request i's goroutine stands
    kind,          \* kind[i]: the route of request i
    req,           \* req[i]: what request i's body held, once decoded
    resp,          \* resp[i]: the response written for request i
    twin,          \* twin[i]: the response in the run with the other error texts
    seen,          \* seen[i]: setupErr and the key as request i's handler read them
    backend        \* backend[i]: the backend call request i's handler made

vars == <<once, provingKey, verifyingKey, setupErr, twinErr, setupLog,
          pc, kind, req, resp, twin, seen, backend>>

keyState == <<once, provingKey, verifyingKey, setupErr, twinErr, setupLog>>

Kinds == {"generate", "verify", "health"}

NoReq == [shape |-> "none", relOk |-> FALSE, sum |-> 0, proof |-> <<>>]

NotSeen == [err |-> "unread", key |-> -1]

\* The process after start-up: no request yet, the package variables at
\* their zero values.
Init ==
    /\ once = "idle"
    /\ provingKey = NilKey
    /\ verifyingKey = NilKey
    /\ setupErr = NoErr
    /\ twinErr = NoErr
    /\ setupLog = <<>>
    /\ pc = [i \in Reqs |-> "idle"]
    /\ kind = [i \in Reqs |-> "none"]
    /\ req = [i \in Reqs |-> NoReq]
    /\ resp = [i \in Reqs |-> NoResp]
    /\ twin = [i \in Reqs |-> NoResp]
    /\ seen = [i \in Reqs |-> NotSeen]
    /\ backend = [i \in Reqs |-> "none"]

\* ---------------------------------------------------------------- actions

\* The router dispatches request i to its handler, in a goroutine of its
\* own.  Requests are numbered in the order they arrive.
Arrive(i, k) ==
    /\ pc[i] = "idle"
    /\ IF i = 1 THEN TRUE ELSE pc[i - 1] # "idle"
    /\ kind' = [kind EXCEPT ![i] = k]
    /\ pc' = [pc EXCEPT ![i] = IF k = "health" THEN "health" ELSE "init"]
    /\ UNCHANGED <<keyState, req, resp, twin, seen, backend>>

\* A guard that is a plain check of a flag: two callers can both find it
\* unset and both run the setup.
OnceDoUnguarded(i) ==
    /\ pc[i] = "init"
    /\ IF once = "done"
       THEN /\ pc' = [pc EXCEPT ![i] = "check"]
            /\ UNCHANGED once
       ELSE /\ once' = "running"
            /\ pc' = [pc EXCEPT ![i] = "setup"]
    /\ UNCHANGED <<provingKey, verifyingKey, setupErr, twinErr, setupLog,
                   kind, req, resp, twin, seen, backend>>

\* A guard that lets a caller through while the setup is still running.
OnceDoNoWait(i) ==
    /\ pc[i] = "init"
    /\ IF once = "idle"
       THEN /\ once' = "running"
            /\ pc' = [pc EXCEPT ![i] = "setup"]
       ELSE /\ pc' = [pc EXCEPT ![i] = "check"]
            /\ UNCHANGED once
    /\ UNCHANGED <<provingKey, verifyingKey, setupErr, twinErr, setupLog,
                   kind, req, resp, twin, seen, backend>>

\* A guard that runs the setup again after a failed one.
OnceDoRetry(i) ==
    /\ pc[i] = "init"
    /\ once # "running"
    /\ IF once = "idle" \/ setupErr # NoErr
       THEN /\ once' = "running"
            /\ pc' = [pc EXCEPT ![i] = "setup"]
       ELSE /\ pc' = [pc EXCEPT ![i] = "check"]
            /\ UNCHANGED once
    /\ UNCHANGED <<provingKey, verifyingKey, setupErr, twinErr, setupLog,
                   kind, req, resp, twin, seen, backend>>

\* initializeKeys: setupOnce.Do(f).  The first caller runs f; a caller that
\* arrives while f runs blocks until f has returned; a caller that arrives
\* later returns at once.
OnceDo(i) ==
    /\ pc[i] = "init"
    /\ once # "running"
    /\ IF once = "idle"
       THEN /\ once' = "running"
            /\ pc' = [pc EXCEPT ![i] = "setup"]
       ELSE /\ pc' = [pc EXCEPT ![i] = "check"]
            /\ UNCHANGED once
    /\ UNCHANGED <<provingKey, verifyingKey, setupErr, twinErr, setupLog,
                   kind, req, resp, twin, seen, backend>>

\* The function passed to setupOnce.Do: provingKey, verifyingKey, setupErr =
\* circuit.Setup(); then Do marks the guard done and releases the waiters.
RunSetup(i, out) ==
    /\ pc[i] = "setup"
    /\ LET s == Setup(Len(setupLog) + 1, out) IN
        /\ provingKey' = s.pk
        /\ verifyingKey' = s.vk
        /\ setupErr' = s.err
        /\ twinErr' = Twin(s.err)
        /\ setupLog' = Append(setupLog, s)
    /\ once' = "done"
    /\ pc' = [pc EXCEPT ![i] = "check"]
    /\ UNCHANGED <<kind, req, resp, twin, seen, backend>>

\* Both handlers, right after initializeKeys: if setupErr != nil, answer 500
\* and return.  The body is not read on that path; req[i].shape records what
\* the client had sent.
CheckSetupErr(i) ==
    /\ pc[i] = "check"
    /\ seen' = [seen EXCEPT ![i].err = setupErr]
    /\ IF setupErr # NoErr
       THEN /\ resp' = [resp EXCEPT ![i] = SetupFailedResponse(setupErr)]
            /\ twin' = [twin EXCEPT ![i] = SetupFailedResponse(twinErr)]
            /\ \E sh \in {"bad", "missing", "ok"} :
                  req' = [req EXCEPT ![i].shape = sh]
            /\ pc' = [pc EXCEPT ![i] = "done"]
       ELSE /\ pc' = [pc EXCEPT ![i] = kind[i]]
            /\ UNCHANGED <<resp, twin, req>>
    /\ UNCHANGED <<keyState, kind, backend>>

\* The bodies a client can send to /api/proof/generate, with integers of V.
ProofRequestBodiesOver(V) ==
    LET F == {<<>>} \cup {<<v>> : v \in V} IN
    {[syntax |-> FALSE, a |-> <<>>, b |-> <<>>, sum |-> <<>>]}
    \cup {[syntax |-> TRUE, a |-> a, b |-> b, sum |-> s] : a \in F, b \in F, s \in F}

ProofRequestBodies == ProofRequestBodiesOver(Ints)

\* GenerateProof, from the decoding of the body to the response, for a body
\* of the given set.
GenerateProofFrom(i, bodies) ==
    /\ pc[i] = "generate"
    /\ \E body \in bodies, r \in Nonces :
       LET d == CallErr
           out == GenerateProofBody(provingKey, body, r, d)
           dec == DecodeProofRequest(body)
       IN /\ resp' = [resp EXCEPT ![i] = out.resp]
          /\ twin' = [twin EXCEPT ![i] =
                         GenerateProofBody(provingKey, body, r, Twin(d)).resp]
          /\ backend' = [backend EXCEPT ![i] = out.backend]
          /\ req' = [req EXCEPT ![i] =
                        [NoReq EXCEPT !.shape = Shape(body, <<body.a, body.b, body.sum>>),
                                      !.relOk = (dec.A + dec.B = dec.Sum),
                                      !.sum = dec.Sum]]
    /\ seen' = [seen EXCEPT ![i].key = provingKey]
    /\ pc' = [pc EXCEPT ![i] = "done"]
    /\ UNCHANGED <<keyState, kind>>

\* GenerateProof on any request body.
GenerateProof(i) == GenerateProofFrom(i, ProofRequestBodies)

\* The proofs a client holds: those of the 200 responses to its generate
\* requests.
Issued == {j \in Reqs : kind[j] = "generate" /\ pc[j] = "done" /\ resp[j].status = 200}

\* The bodies a client can send to /api/proof/verify: a proof it was issued,
\* one it changed, or bytes that are no proof, with a sum of V.
VerifyRequestBodiesOver(V) ==
    LET P == {<<>>} \cup {<<b>> : b \in MalformedProofs}
             \cup {<<resp[j].proof>> : j \in Issued}
             \cup {<<Tamper(resp[j].proof)>> : j \in Issued}
        S == {<<>>} \cup {<<v>> : v \in V}
    IN {[syntax |-> FALSE, proof |-> <<>>, sum |-> <<>>]}
       \cup {[syntax |-> TRUE, proof |-> p, sum |-> s] : p \in P, s \in S}

VerifyRequestBodies == VerifyRequestBodiesOver(Ints)

\* VerifyProof, from the decoding of the body to the response, for a body of
\* the given set.
VerifyProofFrom(i, bodies) ==
    /\ pc[i] = "verify"
    /\ \E body \in bodies :
       LET d == CallErr
           out == VerifyProofBody(verifyingKey, body, d)
           dec == DecodeVerifyRequest(body)
       IN /\ resp' = [resp EXCEPT ![i] = out.resp]
          /\ twin' = [twin EXCEPT ![i] = VerifyProofBody(verifyingKey, body, Twin(d)).resp]
          /\ backend' = [backend EXCEPT ![i] = out.backend]
          /\ req' = [req EXCEPT ![i] =
                        [NoReq EXCEPT !.shape = Shape(body, <<body.proof, body.sum>>),
                                      !.sum = dec.Sum,
                                      !.proof = dec.Proof]]
    /\ seen' = [seen EXCEPT ![i].key = verifyingKey]
    /\ pc' = [pc EXCEPT ![i] = "done"]
    /\ UNCHANGED <<keyState, kind>>

\* VerifyProof on any request body.
VerifyProof(i) == VerifyProofFrom(i, VerifyRequestBodies)

\* A health check that makes sure the keys exist first.
HealthCheckWithSetup(i) ==
    /\ pc[i] = "health"
    /\ pc' = [pc EXCEPT ![i] = "init"]
    /\ UNCHANGED <<keyState, kind, req, resp, twin, seen, backend>>

\* HealthCheck: the static payload, nothing else.
HealthCheck(i) ==
    /\ pc[i] = "health"
    /\ resp' = [resp EXCEPT ![i] = HealthResponse]
    /\ twin' = [twin EXCEPT ![i] = HealthResponse]
    /\ pc' = [pc EXCEPT ![i] = "done"]
    /\ UNCHANGED <<keyState, kind, req, seen, backend>>

Next ==
    \/ \E i \in Reqs, k \in Kinds : Arrive(i, k)
    \/ \E i \in Reqs : OnceDo(i)
    \/ \E i \in Reqs, out \in {NoErr} \cup ErrDetails : RunSetup(i, out)
    \/ \E i \in Reqs : CheckSetupErr(i)
    \/ \E i \in Reqs : GenerateProof(i)
    \/ \E i \in Reqs : VerifyProof(i)
    \/ \E i \in Reqs : HealthCheck(i)

Spec == Init /\ [][Next]_vars

\* The same handlers with every integer of a request body 0: the runs that
\* differ in how the goroutines interleave around the setup, not in the
\* numbers sent.
ZeroInts == {0}

NextSetup ==
    \/ \E i \in Reqs, k \in Kinds : Arrive(i, k)
    \/ \E i \in Reqs : OnceDo(i)
    \/ \E i \in Reqs, out \in {NoErr} \cup ErrDetails : RunSetup(i, out)
    \/ \E i \in Reqs : CheckSetupErr(i)
    \/ \E i \in Reqs : GenerateProofFrom(i, ProofRequestBodiesOver(ZeroInts))
    \/ \E i \in Reqs : VerifyProofFrom(i, VerifyRequestBodiesOver(ZeroInts))
    \/ \E i \in Reqs : HealthCheck(i)

SpecSetup == Init /\ [][NextSetup]_vars

\* ------------------------------------------------------------ vocabulary

\* Request i went to GenerateProof or VerifyProof.
Handled(i) == kind[i] \in {"generate", "verify"}

\* Request i's handler has returned from initializeKeys.
PastInit(i) == Handled(i) /\ pc[i] \in {"check", "generate", "verify", "done"}

\* Request i's handler has passed the `setupErr != nil` check.
PassedCheck(i) ==
    /\ Handled(i)
    /\ \/ pc[i] \in {"generate", "verify"}
       \/ pc[i] = "done" /\ seen[i].err = NoErr

\* Request i has been answered.
Answered(i) == pc[i] = "done"

\* How many times circuit.Setup has been invoked: the runs that returned and
\* the ones in progress.
SetupInvocations == Len(setupLog) + Cardinality({i \in Reqs : pc[i] = "setup"})

\* Request i was a generate request answered after a successful setup.
Generated(i) == kind[i] = "generate" /\ Answered(i) /\ seen[i].err = NoErr

\* Request j was a verify request answered after a successful setup.
Verified(j) == kind[j] = "verify" /\ Answered(j) /\ seen[j].err = NoErr

ProveFailed == respondWithError(500, <<"Failed to generate proof">>)

MalformedProof == respondWithError(400, <<"Invalid proof format">>)

\* ----------------------------------------------------------------- claims

\* C1: whatever the number and interleaving of GenerateProof / VerifyProof
\* requests, circuit.Setup is invoked at most once, exactly once as soon as
\* one caller has returned from initializeKeys, and every caller reads the
\* outcome of that one run: the same keys and the same setupErr.
C1_SetupExactlyOnce ==
    /\ SetupInvocations <= 1
    /\ \A i \in Reqs : PastInit(i) =>
          /\ Len(setupLog) = 1
          /\ SetupInvocations = 1
          /\ <<provingKey, verifyingKey, setupErr>> =
                <<setupLog[1].pk, setupLog[1].vk, setupLog[1].err>>
          /\ seen[i].err # "unread" => seen[i].err = setupLog[1].err
          /\ seen[i].key # -1 => seen[i].key = setupLog[1].pk

\* Two callers, one of which arrived while the other ran the setup, have both
\* been answered from the one setup run.
C1_Witness ==
    \E i, j \in Reqs :
        /\ i # j /\ Handled(i) /\ Handled(j)
        /\ Answered(i) /\ Answered(j)
        /\ seen[i].err = seen[j].err
        /\ Len(setupLog) = 1

\* C2: once circuit.Setup has returned an error, Setup is never invoked
\* again, setupErr keeps that error, every GenerateProof / VerifyProof
\* request is answered with that same setup failure (500), and no handler
\* calls the backend's Prove or Verify.
C2_SetupFailureSticky ==
    (setupLog # <<>> /\ setupLog[1].err # NoErr) =>
        /\ SetupInvocations = 1
        /\ setupErr = setupLog[1].err
        /\ \A i \in Reqs : (Handled(i) /\ Answered(i)) =>
              /\ resp[i] = SetupFailedResponse(setupLog[1].err)
              /\ resp[i].status = 500
              /\ backend[i] = "none"

\* Setup failed and two requests, one of each handler, got the failure.
C2_Witness ==
    /\ setupErr # NoErr
    /\ \E i, j \in Reqs :
          /\ kind[i] = "generate" /\ kind[j] = "verify"
          /\ Answered(i) /\ Answered(j)
          /\ resp[i].status = 500 /\ resp[j].status = 500

\* C3: a caller returns from initializeKeys only when the setup has
\* resolved; a handler that has passed the setupErr check sees both keys set
\* to those of the single Setup run, and no backend call was made with a
\* missing key.
C3_KeysSetPastCheck ==
    /\ \A i \in Reqs : PastInit(i) => once = "done"
    /\ \A i \in Reqs : PassedCheck(i) =>
          /\ Len(setupLog) = 1
          /\ setupLog[1].err = NoErr
          /\ provingKey = setupLog[1].pk /\ provingKey # NilKey
          /\ verifyingKey = setupLog[1].vk /\ verifyingKey # NilKey
    /\ \A i \in Reqs : backend[i] # "none" => seen[i].key \notin {NilKey, -1}

\* One handler has called Prove and another stands past the check.
C3_Witness ==
    \E i, j \in Reqs :
        /\ i # j
        /\ backend[i] = "prove"
        /\ pc[j] \in {"generate", "verify"}

\* C4: after a successful setup, a generate request whose decoded values
\* have a + b # sum is answered 500 "Failed to generate proof" with no proof
\* bytes, and the rejection is the backend's: the handler did call Prove
\* (it makes no check of its own and never answers 400 for this).
C4_Soundness ==
    \A i \in Reqs :
        (Generated(i) /\ req[i].shape # "bad" /\ ~req[i].relOk) =>
            /\ resp[i] = ProveFailed
            /\ resp[i].proof = <<>>
            /\ backend[i] = "prove"

\* A well-formed request with a + b # sum has been answered.
C4_Witness ==
    \E i \in Reqs :
        /\ Generated(i) /\ req[i].shape = "ok" /\ ~req[i].relOk
        /\ resp[i].status = 500

\* C5: after a successful setup, a generate request with sum = a + b is
\* answered 200 with proof bytes and the sum echoed, and every verify
\* request that submits exactly those bytes with the same sum is answered
\* valid: true, whichever proof of the same inputs it is and whatever was
\* served in between.
C5_Completeness ==
    \A i \in Reqs :
        (Generated(i) /\ req[i].shape # "bad" /\ req[i].relOk) =>
            /\ resp[i].status = 200
            /\ resp[i].proof # <<>>
            /\ resp[i].sum = req[i].sum
            /\ \A j \in Reqs :
                  (/\ Verified(j) /\ req[j].shape # "bad"
                   /\ req[j].proof = resp[i].proof
                   /\ req[j].sum = req[i].sum)
                  => resp[j] = VerifyResponse(TRUE)

\* Two proofs of the same sum with different bytes were issued, and one of
\* them was verified against that sum.
C5_Witness ==
    \E i, k, j \in Reqs :
        /\ Generated(i) /\ Generated(k)
        /\ req[i].shape = "ok" /\ req[k].shape = "ok"
        /\ req[i].relOk /\ req[k].relOk
        /\ req[i].sum = req[k].sum
        /\ resp[i].proof # resp[k].proof
        /\ Verified(j) /\ req[j].shape = "ok"
        /\ req[j].proof = resp[k].proof
        /\ req[j].sum = req[k].sum
        /\ resp[j].valid = "true"

\* C6: a proof issued for public sum s and submitted with another sum is
\* answered valid: false, in a 200 response.
C6_SumBinding ==
    \A i, j \in Reqs :
        (/\ Generated(i) /\ resp[i].status = 200
         /\ Verified(j) /\ req[j].shape # "bad"
         /\ req[j].proof = resp[i].proof
         /\ req[j].sum # resp[i].sum)
        => (resp[j] = VerifyResponse(FALSE) /\ resp[j].status = 200)

\* An issued proof was submitted with another sum.
C6_Witness ==
    \E i, j \in Reqs :
        /\ Generated(i) /\ resp[i].status = 200
        /\ Verified(j) /\ req[j].shape = "ok"
        /\ req[j].proof = resp[i].proof
        /\ req[j].sum # resp[i].sum
        /\ resp[j].valid = "false"

\* C7: after a successful setup, a verify request whose proof bytes are no
\* serialized proof is answered 400 "Invalid proof format", never with a
\* valid: false body, and the backend's Verify is not called.
C7_MalformedProofRejected ==
    \A j \in Reqs :
        (Verified(j) /\ req[j].shape # "bad" /\ req[j].proof \in MalformedProofs) =>
            /\ resp[j] = MalformedProof
            /\ resp[j].valid = "none"
            /\ backend[j] = "none"

\* Truncated bytes were submitted in an otherwise complete request.
C7_Witness ==
    \E j \in Reqs :
        /\ Verified(j) /\ req[j].shape = "ok"
        /\ req[j].proof = <<1, 1>>
        /\ resp[j].status = 400

\* C8: a request whose body is no valid JSON or lacks a field is answered
\* 400 and reaches neither Prove nor Verify, in every state of the setup
\* outcome.
C8_MalformedRequestAlways400 ==
    \A i \in Reqs :
        (Handled(i) /\ Answered(i) /\ req[i].shape \in {"bad", "missing"}) =>
            (resp[i].status = 400 /\ backend[i] = "none")

\* C9: the response to a request is the same in the two runs that differ
\* only in the detail text of the backend's errors.
C9_NoErrorDetailEchoed ==
    \A i \in Reqs : Answered(i) => resp[i] = twin[i]

\* C10: a HealthCheck step writes the static 200 payload and finishes the
\* request, without entering initializeKeys and leaving the once-guard,
\* provingKey, verifyingKey and setupErr as they were.
C10_HealthCheckFrame ==
    [][\A i \in Reqs :
          (kind[i] = "health" /\ pc[i] # pc'[i]) =>
              /\ pc'[i] = "done"
              /\ resp'[i] = HealthResponse
              /\ UNCHANGED <<once, provingKey, verifyingKey, setupErr, setupLog>>]_vars

\* Health checks were answered before any setup, and while a setup was
\* running.
C10_Witness ==
    \E i, j \in Reqs :
        /\ kind[i] = "health" /\ Answered(i) /\ resp[i] = HealthResponse
        /\ pc[j] = "setup" /\ once = "running"

====
